---------------------------- MODULE Spec2Model ----------------------------
(***************************************************************************)
(* Model of the ollama-proxy request pipeline: the model-alias table, the  *)
(* four routing handlers (Ollama chat / generate, OpenAI chat /            *)
(* completions) and the stream translator run by the 'data', 'end' and     *)
(* 'close' callbacks of a streamed response.                               *)
(* SpecStartup adds the startup discovery of buildModelMap(), the rebuild   *)
(* of the table and the model-listing handlers; SpecReply the bodies of    *)
(* non-streamed responses; SpecError what the server answers when an       *)
(* adapter call throws; SpecSlowClient a client that reads slower than the *)
(* upstream produces; SpecAdapter the options and the API key an adapter   *)
(* call works with; SpecStreamLive an upstream stream that may fail.       *)
(*                                                                         *)
(* Strings the code inspects character by character (alias keys, requested *)
(* model names) are sequences of one-character strings.  JavaScript values *)
(* that may be absent or of the wrong type are tagged records [t, v].      *)
(***************************************************************************)
EXTENDS Integers, Sequences, FiniteSets, TLC

VARIABLES
    phase,      \* "startup" | "serving" | "handled"      (routing)
    modelMap,   \* the alias table: entries in property-insertion order
    backends,   \* the adapter table: the set of backend tags with an adapter
    req,        \* the request being handled
    res,        \* what the client got: [status, error]
    calls,      \* adapter invocations made by the handler (the spy)
    target,     \* the handler's resolved  target  (or NoTarget)
    sroute,     \* streaming: the route whose stream callbacks run
    upstream,   \* streaming: "none" | "open" | "ended" | "destroyed" | "errored"
    client,     \* streaming: "open" | "closed"   (the client connection)
    out,        \* streaming: frames written to the client with res.write
    resEnded,   \* streaming: res.end() has been called
    fed,        \* streaming: every upstream line piece delivered so far
    pendingTail, \* streaming: the line whose first half ended the last chunk
    endCalls,   \* streaming: how many times res.end() has been called
    listings,   \* startup: what each adapter's listModels() gave
    dynamicModelMap, \* startup: the table buildModelMap() is filling
    responseData, \* non-streaming: the body of the upstream response
    body,       \* non-streaming: the JSON body sent to the client
    taken,      \* streaming: how many written frames the client has read
    server,     \* errors: which server configuration runs
    thrown,     \* errors: what the adapter call threw
    options,    \* adapters: the options of the client's request
    unified,    \* adapters: the options of the request given to the adapter
    netCalls,   \* adapters: upstream HTTP calls issued by the adapter
    apiKey      \* adapters: the API key the adapter was constructed with

routeVars  == <<phase, modelMap, backends, req, res, calls, target>>
streamVars == <<sroute, upstream, client, out, resEnded, fed, pendingTail,
                endCalls, taken>>
startVars  == <<listings, dynamicModelMap>>
replyVars  == <<responseData, body>>
adapterVars == <<server, thrown, options, unified, netCalls, apiKey>>
vars       == <<phase, modelMap, backends, req, res, calls, target,
                sroute, upstream, client, out, resEnded, fed, pendingTail,
                endCalls, listings, dynamicModelMap, responseData, body,
                taken, server, thrown, options, unified, netCalls, apiKey>>

---------------------------------------------------------------------------
(* Bounds *)

MaxAliases == 2

MaxLines == 3

MaxChunk == 2

\* frames the response's buffer holds before res.write() returns false
HighWaterMark == 1

---------------------------------------------------------------------------
(* JavaScript strings *)

Digits == {"0", "1", "2", "3", "4", "5", "6", "7", "8", "9"}

DigitVal(c) ==
    CASE c = "0" -> 0 [] c = "1" -> 1 [] c = "2" -> 2 [] c = "3" -> 3
      [] c = "4" -> 4 [] c = "5" -> 5 [] c = "6" -> 6 [] c = "7" -> 7
      [] c = "8" -> 8 [] c = "9" -> 9

\* String.prototype.toLowerCase, on the letters the model uses
LowerChar(c) ==
    CASE c = "G" -> "g" [] c = "P" -> "p" [] c = "T" -> "t"
      [] c = "Z" -> "z" [] c = "O" -> "o"
      [] OTHER -> c

toLowerCase(s) == [i \in 1..Len(s) |-> LowerChar(s[i])]

\* String.prototype.startsWith
startsWith(s, k) ==
    /\ Len(k) <= Len(s)
    /\ \A i \in 1..Len(k) : s[i] = k[i]

RECURSIVE NumVal(_)
NumVal(s) == IF s = <<>> THEN 0
             ELSE 10 * NumVal(SubSeq(s, 1, Len(s) - 1)) + DigitVal(s[Len(s)])

\* A property key that is a canonical array index (an "integer key"):
\* decimal digits, no leading zero, below 2^32 - 1.  Every key of at most
\* nine digits is below that limit; the model has no longer digit keys.
IsArrayIndex(k) ==
    /\ Len(k) >= 1
    /\ Len(k) <= 9
    /\ \A i \in 1..Len(k) : k[i] \in Digits
    /\ (Len(k) > 1 => k[1] # "0")

---------------------------------------------------------------------------
(* The alias table as a JavaScript object *)

\* modelMap[k] = v : an existing property keeps its position, a new one is
\* appended
SetProp(obj, k, v) ==
    IF \E i \in 1..Len(obj) : obj[i].k = k
    THEN [i \in 1..Len(obj) |-> IF obj[i].k = k THEN [k |-> k, v |-> v] ELSE obj[i]]
    ELSE Append(obj, [k |-> k, v |-> v])

GetProp(obj, k) == (CHOOSE e \in {obj[i] : i \in 1..Len(obj)} : e.k = k).v

InsertionKeys(obj) == [i \in 1..Len(obj) |-> obj[i].k]

RECURSIVE SortAscending(_)
SortAscending(S) ==
    IF S = {} THEN <<>>
    ELSE LET m == CHOOSE x \in S : \A y \in S : NumVal(x) <= NumVal(y)
         IN  <<m>> \o SortAscending(S \ {m})

IsStringKey(k) == ~IsArrayIndex(k)

\* Object.keys: integer keys first, in ascending numeric order, then the
\* string keys in insertion order
ObjectKeys(obj) ==
    LET ks == InsertionKeys(obj)
    IN  SortAscending({ks[i] : i \in {j \in 1..Len(ks) : IsArrayIndex(ks[j])}})
          \o SelectSeq(ks, IsStringKey)

---------------------------------------------------------------------------
(* JavaScript values of a request body *)

\* [t] is the type tag, [v] the characters of a string, [a] the elements of
\* an array
Undefined == [t |-> "undefined", v |-> <<>>, a |-> <<>>]
Null      == [t |-> "null", v |-> <<>>, a |-> <<>>]
Str(s)    == [t |-> "string", v |-> s, a |-> <<>>]
Arr(a)    == [t |-> "array", v |-> <<>>, a |-> a]
Obj       == [t |-> "object", v |-> <<>>, a |-> <<>>]

\* x.length throws a TypeError exactly when x is undefined or null
LengthThrows(x) == x.t \in {"undefined", "null"}

\* !x
Falsy(x) == \/ x.t \in {"undefined", "null"}
            \/ (x.t = "string" /\ x.v = <<>>)

NoTarget == [backend |-> "none", model |-> Undefined]
NoRes    == [status |-> 0, error |-> "none"]
NoReq    == [route |-> "none", model |-> Undefined, messages |-> Undefined,
             prompt |-> Undefined, stream |-> FALSE]


---------------------------------------------------------------------------
(* Model resolution, as every routing handler does it *)

\* keys.find(k => name.startsWith(k)) from position i on, name already
\* lowercased; undefined when no key matches
RECURSIVE FindFrom(_, _, _)
FindFrom(ks, i, name) ==
    IF i > Len(ks) THEN Undefined
    ELSE IF startsWith(name, ks[i]) THEN Str(ks[i])
    ELSE FindFrom(ks, i + 1, name)

\* const key = Object.keys(modelMap).find(k => model.toLowerCase().startsWith(k))
\* mutant: the requested name is compared as it was written
FindKeyCaseSensitive(obj, model) == FindFrom(ObjectKeys(obj), 1, model.v)

FindKey(obj, model) == FindFrom(ObjectKeys(obj), 1, toLowerCase(model.v))

\* the callback evaluates model.toLowerCase() once per key: a TypeError when
\* model is not a string and the table has at least one key
FindThrows(obj, model) == Len(obj) > 0 /\ model.t # "string"

\* mutant: the fallback forwards the lowercased name
DefaultTargetLowercased(model) ==
    [backend |-> "openai", model |-> Str(toLowerCase(model.v))]

\* { backend: 'openai', model }
DefaultTarget(model) == [backend |-> "openai", model |-> model]

\* const target = key ? modelMap[key] : { backend: 'openai', model }
Resolve(obj, model) ==
    LET key == IF Len(obj) = 0 THEN Undefined ELSE FindKey(obj, model)
    IN  IF Falsy(key) THEN DefaultTarget(model) ELSE GetProp(obj, key.v)

\* mutant: the adapter lookup is not checked
NoBackendUnchecked(table, tag) == FALSE

\* const backend = backends[target.backend];  !backend
NoBackend(table, tag) == tag \notin table

---------------------------------------------------------------------------
(* What a handler run ends in *)

Reply(status, error, tgt) ==
    [res |-> [status |-> status, error |-> error], calls |-> <<>>, target |-> tgt]

\* catch (error) { next(error) } : the top-level error handler answers
\* error.response?.status || 500
NextError(error, tgt) == Reply(500, error, tgt)

\* await backend.chat(...) / backend.generate(...)
Dispatch(method, tgt, r) ==
    [res |-> NoRes,
     calls |-> <<[backend |-> tgt.backend, method |-> method,
                  model |-> tgt.model, stream |-> r.stream]>>,
     target |-> tgt]

\* if (!messages || !Array.isArray(messages) || messages.length === 0)
MessagesMissing(messages) ==
    \/ Falsy(messages)
    \/ messages.t # "array"
    \/ Len(messages.a) = 0

\* mutant: only the first message is inspected
InvalidFirstMessage(messages) ==
    Falsy(messages.a[1].role) \/ Falsy(messages.a[1].content)

\* messages.find(msg => !msg.role || !msg.content)
InvalidMessage(messages) ==
    \E i \in 1..Len(messages.a) :
        Falsy(messages.a[i].role) \/ Falsy(messages.a[i].content)

\* model matching, adapter lookup and the adapter call: the tail shared by
\* the four handlers
RouteAndCall(method, r) ==
    IF FindThrows(modelMap, r.model) THEN NextError("TypeError", NoTarget)
    ELSE LET tgt == Resolve(modelMap, r.model)
         IN  IF NoBackend(backends, tgt.backend)
             THEN Reply(400, "Unsupported backend", tgt)
             ELSE Dispatch(method, tgt, r)

\* handleChat (POST /api/chat)
ChatOutcome(r) ==
    IF LengthThrows(r.messages) THEN NextError("TypeError", NoTarget)
    ELSE IF MessagesMissing(r.messages)
    THEN Reply(400, "Messages array is required and must not be empty", NoTarget)
    ELSE IF InvalidMessage(r.messages)
    THEN Reply(400, "Each message must have role and content", NoTarget)
    ELSE RouteAndCall("chat", r)

\* handleOpenAIChat (POST /v1/chat/completions)
OpenAIChatOutcome(r) ==
    IF MessagesMissing(r.messages)
    THEN Reply(400, "Messages array is required and must not be empty", NoTarget)
    ELSE IF InvalidMessage(r.messages)
    THEN Reply(400, "Each message must have role and content", NoTarget)
    ELSE RouteAndCall("chat", r)

\* handleGenerate (POST /api/generate)
GenerateOutcome(r) ==
    IF LengthThrows(r.prompt) THEN NextError("TypeError", NoTarget)
    ELSE RouteAndCall("generate", r)

\* handleOpenAICompletions (POST /v1/completions)
OpenAICompletionsOutcome(r) ==
    IF Falsy(r.prompt) THEN Reply(400, "Prompt is required", NoTarget)
    ELSE RouteAndCall("chat", r)

---------------------------------------------------------------------------
(* Inputs of the routing model *)

\* alias keys: "gpt4", "gpt", and "4o", "4" (what discovery derives from the
\* upstream ids gpt-4o and gpt-4 by stripping the gpt- prefix)
Aliases == { <<"g", "p", "t", "4">>, <<"g", "p", "t">>,
             <<"4", "o">>, <<"4">> }

BackendTags == {"openai", "gemini", "ollama"}

\* the entry registered under alias k: its upstream id names the alias
EntryFor(k, tag) == [backend |-> tag, model |-> Str(<<"u", "p", ":">> \o k)]

EntryTags == {"openai", "ollama"}

\* the adapter tables of the servers: without and with the Ollama adapter
AdapterTables == { {"openai", "gemini"}, {"openai", "gemini", "ollama"} }

\* requested names: "gpt4-t", "GPT4", "4o-m", "Zz", and no model field
ModelNames == { Str(<<"g", "p", "t", "4", "-", "t">>),
                Str(<<"G", "P", "T", "4">>),
                Str(<<"4", "o", "-", "m">>),
                Str(<<"Z", "z">>),
                Undefined }

Msg(role, content) == [role |-> role, content |-> content]

GoodMsg      == Msg(Str(<<"u">>), Str(<<"h", "i">>))
NoRoleMsg    == Msg(Undefined, Str(<<"h", "i">>))
NoContentMsg == Msg(Str(<<"u">>), Undefined)
EmptyMsg     == Msg(Str(<<"u">>), Str(<<>>))

MessagesInputs ==
    { Undefined, Null, Str(<<"x">>), Obj,
      Arr(<<>>), Arr(<<GoodMsg>>), Arr(<<GoodMsg, GoodMsg>>),
      Arr(<<NoRoleMsg>>), Arr(<<GoodMsg, NoContentMsg>>),
      Arr(<<EmptyMsg, GoodMsg>>) }

PromptInputs == { Undefined, Str(<<>>), Str(<<"p">>) }

ChatRequests(route) ==
    [route : {route}, model : ModelNames, messages : MessagesInputs,
     prompt : {Undefined}, stream : BOOLEAN]

PromptRequests(route) ==
    [route : {route}, model : ModelNames, messages : {Undefined},
     prompt : PromptInputs, stream : BOOLEAN]

---------------------------------------------------------------------------
(* Routing: the table is filled at startup, then one request is handled *)

\* a property the JSON does not have
Absent == "<undefined>"

\* before buildModelMap() has asked an adapter
NotAsked == [result |-> "not asked", models |-> <<>>]

NoListings == [openai |-> NotAsked, gemini |-> NotAsked, ollama |-> NotAsked]

\* no upstream response body, no client body
NoResponseData ==
    [present |-> FALSE, choices |-> Undefined, candidates |-> Undefined,
     response |-> Undefined]

\* mutant: the token estimate is cut to a whole number
FloorBy4(n) == [whole |-> n \div 4, quarters |-> 0]

\* n / 4 in floating point is exact: the whole part and the quarters left
DivideBy4(n) == [whole |-> n \div 4, quarters |-> n % 4]

\* usage: { prompt_tokens, completion_tokens, total_tokens }
Usage(promptChars, completionChars) ==
    [given |-> TRUE,
     prompt_tokens |-> DivideBy4(promptChars),
     completion_tokens |-> DivideBy4(completionChars),
     total_tokens |-> DivideBy4(promptChars + completionChars)]

\* a body without a usage property
NoUsage ==
    [given |-> FALSE,
     prompt_tokens |-> [whole |-> 0, quarters |-> 0],
     completion_tokens |-> [whole |-> 0, quarters |-> 0],
     total_tokens |-> [whole |-> 0, quarters |-> 0]]

NoBody == [object |-> "none", model |-> Undefined, content |-> Undefined,
           done |-> FALSE, names |-> <<>>, family |-> <<>>, usage |-> NoUsage]

StartIdle ==
    /\ listings = NoListings
    /\ dynamicModelMap = <<>>

ReplyIdle ==
    /\ responseData = NoResponseData
    /\ body = NoBody

\* nothing thrown
NoError == [kind |-> "none", status |-> 0]

\* no option given
NoOptions == [temperature |-> Absent, top_p |-> Absent, top_k |-> Absent]

AdapterIdle ==
    /\ server = "none"
    /\ thrown = NoError
    /\ options = NoOptions
    /\ unified = NoOptions
    /\ netCalls = 0
    /\ apiKey = ""

StreamIdle ==
    /\ sroute = "none"
    /\ upstream = "none"
    /\ client = "open"
    /\ out = <<>>
    /\ resEnded = FALSE
    /\ fed = <<>>
    /\ pendingTail = <<>>
    /\ endCalls = 0
    /\ taken = 0

Init ==
    /\ phase = "startup"
    /\ modelMap = <<>>
    /\ backends \in AdapterTables
    /\ req = NoReq
    /\ res = NoRes
    /\ calls = <<>>
    /\ target = NoTarget
    /\ StreamIdle
    /\ StartIdle
    /\ ReplyIdle
    /\ AdapterIdle

\* modelMap[alias] = { backend, model }: one property of the table literal,
\* or one assignment of the discovery pass
Register(k, tag) ==
    /\ phase = "startup"
    /\ Len(SetProp(modelMap, k, EntryFor(k, tag))) <= MaxAliases
    /\ modelMap' = SetProp(modelMap, k, EntryFor(k, tag))
    /\ UNCHANGED <<phase, backends, req, res, calls, target>>
    /\ UNCHANGED <<streamVars, startVars, replyVars, adapterVars>>

\* app.listen
Listen ==
    /\ phase = "startup"
    /\ phase' = "serving"
    /\ UNCHANGED <<modelMap, backends, req, res, calls, target>>
    /\ UNCHANGED <<streamVars, startVars, replyVars, adapterVars>>

\* POST /api/chat
handleChat(r) ==
    /\ phase = "serving"
    /\ phase' = "handled"
    /\ req' = r
    /\ res' = ChatOutcome(r).res
    /\ calls' = ChatOutcome(r).calls
    /\ target' = ChatOutcome(r).target
    /\ UNCHANGED <<modelMap, backends>>
    /\ UNCHANGED <<streamVars, startVars, replyVars, adapterVars>>

\* POST /api/generate
handleGenerate(r) ==
    /\ phase = "serving"
    /\ phase' = "handled"
    /\ req' = r
    /\ res' = GenerateOutcome(r).res
    /\ calls' = GenerateOutcome(r).calls
    /\ target' = GenerateOutcome(r).target
    /\ UNCHANGED <<modelMap, backends>>
    /\ UNCHANGED <<streamVars, startVars, replyVars, adapterVars>>

\* POST /v1/chat/completions
handleOpenAIChat(r) ==
    /\ phase = "serving"
    /\ phase' = "handled"
    /\ req' = r
    /\ res' = OpenAIChatOutcome(r).res
    /\ calls' = OpenAIChatOutcome(r).calls
    /\ target' = OpenAIChatOutcome(r).target
    /\ UNCHANGED <<modelMap, backends>>
    /\ UNCHANGED <<streamVars, startVars, replyVars, adapterVars>>

\* POST /v1/completions
handleOpenAICompletions(r) ==
    /\ phase = "serving"
    /\ phase' = "handled"
    /\ req' = r
    /\ res' = OpenAICompletionsOutcome(r).res
    /\ calls' = OpenAICompletionsOutcome(r).calls
    /\ target' = OpenAICompletionsOutcome(r).target
    /\ UNCHANGED <<modelMap, backends>>
    /\ UNCHANGED <<streamVars, startVars, replyVars, adapterVars>>

Next ==
    \/ \E k \in Aliases, tag \in EntryTags : Register(k, tag)
    \/ Listen
    \/ \E r \in ChatRequests("api_chat") : handleChat(r)
    \/ \E r \in PromptRequests("api_generate") : handleGenerate(r)
    \/ \E r \in ChatRequests("v1_chat") : handleOpenAIChat(r)
    \/ \E r \in PromptRequests("v1_completions") : handleOpenAICompletions(r)

Spec == Init /\ [][Next]_vars

---------------------------------------------------------------------------
(* The upstream event stream *)

\* payload of one upstream line (the text after 'data: ')
DonePayload == [kind |-> "done", top |-> "none", choices |-> Absent, candidates |-> Absent]
BadPayload  == [kind |-> "bad", top |-> "none", choices |-> Absent, candidates |-> Absent]
NullPayload == [kind |-> "json", top |-> "null", choices |-> Absent, candidates |-> Absent]
JsonPayload(choices, candidates) ==
    [kind |-> "json", top |-> "object", choices |-> choices, candidates |-> candidates]

DataLine(payload) == [marker |-> TRUE, payload |-> payload]

DoneLine  == DataLine(DonePayload)                \* data: [DONE]
DeltaHi   == DataLine(JsonPayload("Hi", Absent))  \* data: {"choices":[{"delta":{"content":"Hi"}}]}
CandOk    == DataLine(JsonPayload(Absent, "ok"))  \* data: {"candidates":[{"content":"ok"}]}
BadLine   == DataLine(BadPayload)                 \* data: {not valid json
NullLine  == DataLine(NullPayload)                \* data: null

Lines == {DoneLine, DeltaHi, CandOk, BadLine, NullLine}

\* What one chunk holds of a line: all of it, or, when the chunk boundary
\* falls inside the line's payload, its first part (in one chunk) and the
\* rest (at the start of the next chunk).
WholeOf(l) == [line |-> l, part |-> "whole"]
HeadOf(l) == [line |-> l, part |-> "head"]
TailOf(l) == [line |-> l, part |-> "tail"]

Pieces == [line : Lines, part : {"whole", "head", "tail"}]

LinesStarted(ps) == Cardinality({i \in 1..Len(ps) : ps[i].part # "tail"})

WholeLines(n) == {[j \in 1..Len(ls) |-> WholeOf(ls[j])] : ls \in [1..n -> Lines]}

Smaller(a, b) == IF a <= b THEN a ELSE b

\* the chunks the upstream can deliver next: the rest of the line cut by the
\* last chunk boundary, then whole lines, then possibly the first part of a
\* line cut by this chunk's end
ChunksAfter(log, pending) ==
    LET first  == IF pending = <<>> THEN <<>> ELSE <<TailOf(pending[1])>>
        budget == MaxLines - LinesStarted(log)
        room   == MaxChunk - Len(first)
        least  == IF pending = <<>> THEN 1 ELSE 0
    IN  {first \o ws :
            ws \in UNION {WholeLines(n) : n \in least..Smaller(room, budget)}}
        \cup
        {first \o ws \o <<HeadOf(l)>> :
            ws \in UNION {WholeLines(n) : n \in 0..(Smaller(room, budget) - 1)},
            l \in Lines}

---------------------------------------------------------------------------
(* The stream translator: the 'data' callback of the chat handlers *)

\* line.startsWith('data: ')
HasDataMarker(p) == p.part # "tail" /\ p.line.marker

\* data === '[DONE]'
IsDone(p) == p.part = "whole" /\ p.line.payload.kind = "done"

\* JSON.parse(data) throws: the text is not JSON, or is the cut-off start of
\* a payload
ParseThrows(p) == p.part = "head" \/ p.line.payload.kind # "json"

\* parsed.choices throws a TypeError when parsed is null
AccessThrows(p) == p.line.payload.top = "null"

Truthy(text) == text # Absent /\ text # ""

\* parsed.choices?.[0]?.delta?.content || parsed.candidates?.[0]?.content || ''
ExtractContent(payload) ==
    IF Truthy(payload.choices) THEN payload.choices
    ELSE IF Truthy(payload.candidates) THEN payload.candidates
    ELSE ""

Frame(shape, content, done, finish, timing) ==
    [shape |-> shape, content |-> content, done |-> done, finish |-> finish,
     timing |-> timing]

\* the literal frame  data: [DONE]
LiteralDone == Frame("[DONE]", Absent, FALSE, "none", "absent")

\* mutant: the terminal frame  data: {"done": true}  without timing fields
BareDoneFrame == <<Frame("ollama", Absent, TRUE, "none", "absent")>>

\* what the handler of /api/chat writes on '[DONE]'
OllamaDoneFrame == <<Frame("ollama", Absent, TRUE, "none", "zero")>>

\* what the 'data' callback writes on '[DONE]'
OnDoneFrames(route) ==
    IF route = "api_chat" THEN OllamaDoneFrame ELSE <<LiteralDone>>

\* the frame written for a parsed payload
ContentFrame(route, content) ==
    IF route = "api_chat" THEN Frame("ollama", content, FALSE, "none", "zero")
    ELSE IF route = "v1_chat" THEN Frame("chat.completion.chunk", content, FALSE, "null", "absent")
    ELSE Frame("text_completion", content, FALSE, "null", "absent")

\* the chunk carrying finish_reason: 'stop'
StopChunk(route) ==
    IF route = "v1_chat" THEN Frame("chat.completion.chunk", Absent, FALSE, "stop", "absent")
    ELSE Frame("text_completion", "", FALSE, "stop", "absent")

RECURSIVE TranslateFrom(_, _, _)

\* mutant: a parse error ends the processing of the chunk
AbortChunk(route, chunk, i) == <<>>

\* catch (e) { console.error(...) } : the loop goes on with the next line
AfterParseError(route, chunk, i) == TranslateFrom(route, chunk, i + 1)

\* for (const line of lines) { ... } from line i on: the frames written
TranslateFrom(route, chunk, i) ==
    IF i > Len(chunk) THEN <<>>
    ELSE IF ~HasDataMarker(chunk[i]) THEN TranslateFrom(route, chunk, i + 1)
    ELSE IF IsDone(chunk[i])
    THEN OnDoneFrames(route) \o TranslateFrom(route, chunk, i + 1)
    ELSE IF ParseThrows(chunk[i]) \/ AccessThrows(chunk[i])
    THEN AfterParseError(route, chunk, i)
    ELSE <<ContentFrame(route, ExtractContent(chunk[i].line.payload))>>
            \o TranslateFrom(route, chunk, i + 1)

\* mutant: the frames of one chunk are written last line first
TranslateLastFirst(route, chunk) ==
    LET fs == TranslateFrom(route, chunk, 1)
    IN  [k \in 1..Len(fs) |-> fs[Len(fs) + 1 - k]]

\* response.data.on('data', chunk => ...)
Translate(route, chunk) == TranslateFrom(route, chunk, 1)

\* response.data.pipe(res): the chunk goes to the client as it is
RawFrame(p) == Frame("raw", p, FALSE, "none", "absent")

Piped(chunk) == [j \in 1..Len(chunk) |-> RawFrame(chunk[j])]

\* response.data.on('end', ...) : what is written before res.end()
OnEndFrames(route) ==
    IF route \in {"v1_chat", "v1_completions"} THEN <<StopChunk(route), LiteralDone>>
    ELSE <<>>

\* mutant: the 'end' callback does not close the response
NoEndCall(route) == 0

\* res.end() in the 'end' callback (pipe() ends the response likewise)
EndCallsOnEnd(route) == IF route \in {"api_chat", "api_generate", "v1_chat", "v1_completions"} THEN 1 ELSE 0

\* req.on('close', () => response.data.destroy()) on the chat handlers;
\* handleGenerate registers no 'close' listener, and pipe() only unpipes
UpstreamAfterClose(route) ==
    IF route = "api_generate" THEN "open" ELSE "destroyed"

StreamRoutes == {"api_chat", "api_generate", "v1_chat", "v1_completions"}

TranslatingRoutes == {"api_chat", "v1_chat", "v1_completions"}

---------------------------------------------------------------------------
(* Streaming: the callbacks of one streamed response *)

InitStream ==
    /\ phase = "handled"
    /\ modelMap = <<>>
    /\ backends = BackendTags
    /\ req = NoReq
    /\ res = NoRes
    /\ calls = <<>>
    /\ target = NoTarget
    /\ StreamIdle
    /\ StartIdle
    /\ ReplyIdle
    /\ AdapterIdle

\* the adapter call has returned the upstream stream: the handler sets the
\* headers and registers its callbacks (or pipes)
BeginStream(route) ==
    /\ sroute = "none"
    /\ sroute' = route
    /\ upstream' = "open"
    /\ UNCHANGED <<client, out, resEnded, fed, pendingTail, endCalls, taken>>
    /\ UNCHANGED <<routeVars, startVars, replyVars, adapterVars>>

\* 'data' on a translating route: response.data.on('data', chunk => ...)
OnData ==
    /\ sroute \in TranslatingRoutes
    /\ upstream = "open"
    /\ \E chunk \in ChunksAfter(fed, pendingTail) :
          /\ out' = out \o Translate(sroute, chunk)
          /\ fed' = fed \o chunk
          /\ pendingTail' = IF chunk[Len(chunk)].part = "head"
                            THEN <<chunk[Len(chunk)].line>> ELSE <<>>
    /\ UNCHANGED <<sroute, upstream, client, resEnded, endCalls, taken>>
    /\ UNCHANGED <<routeVars, startVars, replyVars, adapterVars>>

\* 'data' on /api/generate: pipe() writes the chunk to the response
OnPipeData ==
    /\ sroute = "api_generate"
    /\ upstream = "open"
    /\ client = "open"
    /\ \E chunk \in ChunksAfter(fed, pendingTail) :
          /\ out' = out \o Piped(chunk)
          /\ fed' = fed \o chunk
          /\ pendingTail' = IF chunk[Len(chunk)].part = "head"
                            THEN <<chunk[Len(chunk)].line>> ELSE <<>>
    /\ UNCHANGED <<sroute, upstream, client, resEnded, endCalls, taken>>
    /\ UNCHANGED <<routeVars, startVars, replyVars, adapterVars>>

\* 'end': the upstream has no more data
OnEnd ==
    /\ sroute \in StreamRoutes
    /\ upstream = "open"
    /\ pendingTail = <<>>
    /\ (sroute = "api_generate") => client = "open"
    /\ upstream' = "ended"
    /\ out' = out \o OnEndFrames(sroute)
    /\ resEnded' = TRUE
    /\ endCalls' = endCalls + EndCallsOnEnd(sroute)
    /\ UNCHANGED <<sroute, client, fed, pendingTail, taken>>
    /\ UNCHANGED <<routeVars, startVars, replyVars, adapterVars>>

\* the client disconnects while the response is streamed
ClientClose ==
    /\ sroute \in StreamRoutes
    /\ upstream = "open"
    /\ client = "open"
    /\ client' = "closed"
    /\ upstream' = UpstreamAfterClose(sroute)
    /\ UNCHANGED <<sroute, out, resEnded, fed, pendingTail, endCalls, taken>>
    /\ UNCHANGED <<routeVars, startVars, replyVars, adapterVars>>

NextStream ==
    \/ \E route \in StreamRoutes : BeginStream(route)
    \/ OnData
    \/ OnPipeData
    \/ OnEnd
    \/ ClientClose

SpecStream == InitStream /\ [][NextStream]_vars

---------------------------------------------------------------------------
(* Claims about routing, checked under Spec *)

ChatRoutes == {"api_chat", "v1_chat"}

\* positions, in registration order, of the aliases that are a prefix of the
\* lowercased requested name
MatchingPositions(obj, model) ==
    {i \in 1..Len(obj) : startsWith(toLowerCase(model.v), obj[i].k)}

Least(S) == CHOOSE x \in S : \A y \in S : x <= y

\* a field that is missing, or present with the empty string
Lacks(x) == x.t = "undefined" \/ (x.t = "string" /\ Len(x.v) = 0)

\* a request that passes the handler's own field checks
PassesValidation(r) ==
    /\ r.model.t = "string"
    /\ r.route \in ChatRoutes =>
          /\ r.messages.t = "array"
          /\ Len(r.messages.a) > 0
          /\ \A i \in 1..Len(r.messages.a) :
                ~Lacks(r.messages.a[i].role) /\ ~Lacks(r.messages.a[i].content)
    /\ r.route \notin ChatRoutes =>
          r.prompt.t = "string" /\ Len(r.prompt.v) > 0

\* C1: the entry a handler selects is the entry of the first alias, in
\* registration order, that is a prefix of the lowercased requested name.
C1_FirstRegisteredPrefixSelected ==
    (/\ phase = "handled"
     /\ PassesValidation(req)
     /\ MatchingPositions(modelMap, req.model) # {})
        => target = modelMap[Least(MatchingPositions(modelMap, req.model))].v

\* C2: when no registered alias is a prefix of the lowercased requested
\* name, the handler calls the OpenAI adapter with the requested name
\* verbatim as the upstream model, for every table including the empty one.
C2_UnknownModelFallsBackToOpenAI ==
    (/\ phase = "handled"
     /\ PassesValidation(req)
     /\ MatchingPositions(modelMap, req.model) = {})
        => /\ Len(calls) = 1
           /\ calls[1].backend = "openai"
           /\ calls[1].model = req.model
           /\ res = NoRes

C2_Witness ==
    /\ phase = "handled"
    /\ PassesValidation(req)
    /\ Len(modelMap) > 0
    /\ MatchingPositions(modelMap, req.model) = {}
    /\ req.model = Str(<<"Z", "z">>)
    /\ Len(calls) = 1

\* C3: on both chat routes a request whose messages array is empty, or has a
\* message lacking role or content (the empty string included), gets status
\* 400 with a JSON error body and no adapter method is invoked.
C3_InvalidMessagesRejected ==
    (/\ phase = "handled"
     /\ req.route \in ChatRoutes
     /\ req.messages.t = "array"
     /\ \/ Len(req.messages.a) = 0
        \/ \E i \in 1..Len(req.messages.a) :
              Lacks(req.messages.a[i].role) \/ Lacks(req.messages.a[i].content))
        => /\ res.status = 400
           /\ res.error # "none"
           /\ calls = <<>>

C3_Witness ==
    /\ phase = "handled"
    /\ req.route = "api_chat"
    /\ req.messages = Arr(<<GoodMsg, NoContentMsg>>)
    /\ res.status = 400
    /\ calls = <<>>

\* C4: on both chat routes a request whose message list is absent (no
\* messages field, or a value that is not an array) gets status 400 with a
\* descriptive message and the adapter is never invoked.
C4_AbsentMessagesRejected ==
    (/\ phase = "handled"
     /\ req.route \in ChatRoutes
     /\ req.messages.t # "array")
        => /\ res.status = 400
           /\ res.error = "Messages array is required and must not be empty"
           /\ calls = <<>>

\* C5: in every routing handler, when the resolved entry's backend tag has no
\* adapter in the adapter table the request ends with status 400 and the
\* body {error: 'Unsupported backend'}, no adapter method is invoked and no
\* exception reaches the top-level error handler.
C5_UnsupportedBackendIs400 ==
    (/\ phase = "handled"
     /\ target # NoTarget
     /\ target.backend \notin backends)
        => /\ res = [status |-> 400, error |-> "Unsupported backend"]
           /\ calls = <<>>

C5_Witness ==
    /\ phase = "handled"
    /\ req.route = "v1_completions"
    /\ target.backend = "ollama"
    /\ "ollama" \notin backends
    /\ res.status = 400

---------------------------------------------------------------------------
(* Claims about streaming, checked under SpecStream *)

HiThenDone == <<WholeOf(DeltaHi), WholeOf(DoneLine)>>

C7_OpenAIHiStopDone ==
    (/\ sroute \in {"v1_chat", "v1_completions"}
     /\ upstream = "ended"
     /\ fed = HiThenDone)
        => out = <<ContentFrame(sroute, "Hi"), StopChunk(sroute), LiteralDone>>

\* a complete 'data: ' line whose payload is not valid JSON
IsMalformed(p) == p.part = "whole" /\ p.line.marker /\ p.line.payload.kind = "bad"

\* a complete 'data: ' line whose payload is a JSON object
IsValidData(p) ==
    /\ p.part = "whole"
    /\ p.line.marker
    /\ p.line.payload.kind = "json"
    /\ p.line.payload.top = "object"

\* a client frame that carries upstream content
IsContentFrame(f) == f.shape # "[DONE]" /\ ~f.done /\ f.finish # "stop"

\* C8: a 'data: ' line whose payload is not valid JSON produces no client
\* frame and does not stop processing: once such a line has been received,
\* the content frames written are still exactly those of the valid frames
\* received, before and after it, in the same chunk or in later chunks.
C8_MalformedLineDropped ==
    (/\ sroute \in TranslatingRoutes
     /\ \E i \in 1..Len(fed) : IsMalformed(fed[i]))
        => LET valid   == SelectSeq(fed, IsValidData)
               written == SelectSeq(out, IsContentFrame)
           IN  /\ Len(written) = Len(valid)
               /\ \A i \in 1..Len(valid) :
                     written[i].content = ExtractContent(valid[i].line.payload)

C8_Witness ==
    /\ sroute \in TranslatingRoutes
    /\ fed = <<WholeOf(BadLine), WholeOf(CandOk)>>
    /\ Len(out) = 1
    /\ out[1].content = "ok"

\* C9: on every streaming route, when the client has disconnected during a
\* streamed response the upstream stream has been destroyed: no state has
\* the client connection closed and the upstream stream still open.
C9_CloseReleasesUpstream ==
    (sroute \in StreamRoutes /\ client = "closed") => upstream = "destroyed"

IsTerminal(f) == f.done \/ f.finish = "stop"

\* C10: a streamed response that ran to upstream end-of-stream is zero or
\* more partial values followed by exactly one terminal value (done=true,
\* or finish_reason='stop'), with or without an upstream '[DONE]'.
C10_OneTerminalValueLast ==
    (sroute \in TranslatingRoutes /\ upstream = "ended")
        => /\ Cardinality({i \in 1..Len(out) : IsTerminal(out[i])}) = 1
           /\ \A i, j \in 1..Len(out) :
                 (IsTerminal(out[i]) /\ IsContentFrame(out[j])) => j < i

DoneSeen == \E i \in 1..Len(fed) : IsDone(fed[i])

EndedWithoutDone ==
    /\ sroute \in TranslatingRoutes
    /\ upstream = "ended"
    /\ ~DoneSeen

\* C11: on every translating streaming route, when the upstream stream ends
\* and no '[DONE]' frame has been seen, the response is closed: res.end() has
\* been called exactly once, and once the response is closed nothing more is
\* written to it and it is not closed again.
C11_EndClosesSinkOnce ==
    /\ [](EndedWithoutDone => (resEnded /\ endCalls = 1))
    /\ [][(sroute \in TranslatingRoutes /\ resEnded)
             => (out' = out /\ endCalls' = endCalls /\ resEnded')]_vars

C11_Witness ==
    /\ sroute \in {"v1_chat", "v1_completions"}
    /\ upstream = "ended"
    /\ fed = <<WholeOf(DeltaHi), WholeOf(CandOk)>>
    /\ endCalls = 1
    /\ Len(out) = 4

ProducerPositions == {i \in 1..Len(fed) : IsValidData(fed[i])}

RECURSIVE Ascending(_)

\* the elements of a set of positions, lowest first
Ascending(S) ==
    IF S = {} THEN <<>>
    ELSE LET m == CHOOSE x \in S : \A y \in S : x <= y
         IN  <<m>> \o Ascending(S \ {m})

\* C12: within one streamed response the client frames that carry upstream
\* content are, one for one and in the same order, the upstream frames that
\* produced them, however the upstream lines were split into chunks: the
\* k-th content frame carries the content of the k-th producing upstream
\* frame, so none is reordered, duplicated or merged with another.
C12_ContentFramesInUpstreamOrder ==
    (sroute \in TranslatingRoutes)
        => LET producers == Ascending(ProducerPositions)
               written   == SelectSeq(out, IsContentFrame)
           IN  /\ Len(written) = Len(producers)
               /\ \A k \in 1..Len(producers) :
                     written[k] = ContentFrame(sroute,
                                     ExtractContent(fed[producers[k]].line.payload))

C12_Witness ==
    /\ sroute \in TranslatingRoutes
    /\ fed = <<WholeOf(DeltaHi), HeadOf(DoneLine), TailOf(DoneLine), WholeOf(CandOk)>>
    /\ Len(out) = 2
    /\ out[1].content = "Hi"
    /\ out[2].content = "ok"

\* the upstream lines received so far, each put together from its pieces
AssembledLines ==
    LET rest(p) == p.part # "head"
        ps      == SelectSeq(fed, rest)
    IN  [k \in 1..Len(ps) |-> WholeOf(ps[k].line)]

\* C13: the frames written do not depend on how the upstream bytes were cut
\* into chunks: once every line received is complete, the client has the
\* frames the translator writes for those lines arriving whole, so a
\* 'data: <json>' line split across two chunks gives its one client frame.
C13_ChunkingDoesNotMatter ==
    (/\ sroute \in TranslatingRoutes
     /\ upstream = "open"
     /\ pendingTail = <<>>)
        => out = Translate(sroute, AssembledLines)

\* C14: a streamed /api/generate response consists of frames in the Ollama
\* streaming shape only (done=false, zeroed timing), never the provider's
\* raw frames, and once the upstream has ended its last frame is the
\* terminal value with done=true.
C14_GenerateStreamIsOllamaShaped ==
    (sroute = "api_generate")
        => /\ \A i \in 1..Len(out) :
                 out[i].shape = "ollama" /\ out[i].timing = "zero"
           /\ (upstream = "ended")
                 => (Len(out) > 0 /\ out[Len(out)].done)

---------------------------------------------------------------------------
(* Startup: buildModelMap() asks each adapter for its models, the startup  *)
(* routine replaces the static table by the discovered one, then listens   *)

\* 'gpt-'
GptPrefix == <<"g", "p", "t", "-">>

\* modelName.replace(/^gpt-/, '')
StripGptPrefix(s) ==
    IF startsWith(s, GptPrefix) THEN SubSeq(s, Len(GptPrefix) + 1, Len(s)) ELSE s

\* s.includes(sub)
Includes(s, sub) ==
    \E i \in 0..(Len(s) - Len(sub)) : SubSeq(s, i + 1, i + Len(sub)) = sub

\* name.split('/').pop() || name
LastSegment(s) ==
    LET slashes == {i \in 1..Len(s) : s[i] = "/"}
        last    == IF slashes = {} THEN 0
                   ELSE CHOOSE i \in slashes : \A j \in slashes : j <= i
        seg     == SubSeq(s, last + 1, Len(s))
    IN  IF seg = <<>> THEN s ELSE seg

Entry(tag, name) == [backend |-> tag, model |-> Str(name)]

\* const modelMap: ModelMap = { openai: ..., gemini: ..., llama2: ..., ... }
StaticModelMap ==
    << [k |-> <<"o", "p", "e", "n", "a", "i">>, v |-> Entry("openai", <<"g", "p", "t", "-", "4", ".", "1", "-", "m", "i", "n", "i">>)],
       [k |-> <<"g", "e", "m", "i", "n", "i">>, v |-> Entry("gemini", <<"g", "e", "m", "i", "n", "i", "-", "p", "r", "o">>)],
       [k |-> <<"l", "l", "a", "m", "a", "2">>, v |-> Entry("ollama", <<"l", "l", "a", "m", "a", "2">>)],
       [k |-> <<"m", "i", "s", "t", "r", "a", "l">>, v |-> Entry("ollama", <<"m", "i", "s", "t", "r", "a", "l">>)],
       [k |-> <<"m", "i", "x", "t", "r", "a", "l">>, v |-> Entry("ollama", <<"m", "i", "x", "t", "r", "a", "l">>)] >>

\* the body of the loop over the OpenAI models
OpenAIAliases(map, modelName) ==
    LET named == SetProp(map, StripGptPrefix(modelName), Entry("openai", modelName))
    IN  IF Includes(modelName, <<"g", "p", "t", "-", "4">>)
        THEN SetProp(named, <<"g", "p", "t", "4">>, Entry("openai", modelName))
        ELSE IF Includes(modelName, <<"g", "p", "t", "-", "3", ".", "5", "-", "t", "u", "r", "b", "o">>)
        THEN SetProp(named, <<"g", "p", "t", "3", "5">>, Entry("openai", modelName))
        ELSE named

RECURSIVE AddOpenAIFrom(_, _, _)

\* for (const model of models): model.id.replace throws when id is missing,
\* and the catch keeps what the loop has added so far
AddOpenAIFrom(map, models, i) ==
    IF i > Len(models) THEN map
    ELSE IF models[i].t # "string" THEN map
    ELSE AddOpenAIFrom(OpenAIAliases(map, models[i].v), models, i + 1)

\* try { listModels(); if (status === 200) ... } catch { console.error }
AfterOpenAI(map, listing) ==
    IF listing.result = "ok" THEN AddOpenAIFrom(map, listing.models, 1) ELSE map

\* the body of the loop over the Gemini models
GeminiAliases(map, name) ==
    LET named == SetProp(map, LastSegment(name), Entry("gemini", name))
    IN  IF LastSegment(name) = <<"g", "e", "m", "i", "n", "i", "-", "p", "r", "o">>
        THEN SetProp(named, <<"g", "e", "m", "i", "n", "i">>, Entry("gemini", name))
        ELSE named

RECURSIVE AddGeminiFrom(_, _, _)

\* for (const model of models): model.name.split throws when name is missing
AddGeminiFrom(map, models, i) ==
    IF i > Len(models) THEN map
    ELSE IF models[i].t # "string" THEN map
    ELSE AddGeminiFrom(GeminiAliases(map, models[i].v), models, i + 1)

\* mutant: a failed listing discards the aliases collected so far
DiscardOnFailure(map, listing) ==
    IF listing.result = "ok" THEN AddGeminiFrom(map, listing.models, 1) ELSE <<>>

AfterGemini(map, listing) ==
    IF listing.result = "ok" THEN AddGeminiFrom(map, listing.models, 1) ELSE map

\* the body of the loop over the Ollama models
OllamaAliases(map, modelName) ==
    LET named == SetProp(map, modelName, Entry("ollama", modelName))
    IN  IF startsWith(modelName, <<"l", "l", "a", "m", "a", "2">>)
        THEN SetProp(named, <<"l", "l", "a", "m", "a">>, Entry("ollama", modelName))
        ELSE IF startsWith(modelName, <<"m", "i", "s", "t", "r", "a", "l">>)
        THEN SetProp(named, <<"m", "i", "s", "t", "r", "a", "l">>, Entry("ollama", modelName))
        ELSE IF startsWith(modelName, <<"m", "i", "x", "t", "r", "a", "l">>)
        THEN SetProp(named, <<"m", "i", "x", "t", "r", "a", "l">>, Entry("ollama", modelName))
        ELSE named

RECURSIVE AddOllamaFrom(_, _, _)

\* const modelName = model.name || ''; if (!modelName) continue;
AddOllamaFrom(map, models, i) ==
    IF i > Len(models) THEN map
    ELSE IF Falsy(models[i]) THEN AddOllamaFrom(map, models, i + 1)
    ELSE AddOllamaFrom(OllamaAliases(map, models[i].v), models, i + 1)

\* a body that is a bare JSON array has no 'models' property: the loop runs
\* over  data.models || []  and adds nothing
AfterOllama(map, listing) ==
    IF listing.result = "ok" THEN AddOllamaFrom(map, listing.models, 1) ELSE map

RECURSIVE AssignFrom(_, _, _, _)

AssignFrom(obj, src, ks, i) ==
    IF i > Len(ks) THEN obj
    ELSE AssignFrom(SetProp(obj, ks[i], GetProp(src, ks[i])), src, ks, i + 1)

\* Object.assign(modelMap, dynamicModelMap)
ObjectAssign(obj, src) == AssignFrom(obj, src, ObjectKeys(src), 1)

Listing(result, models) == [result |-> result, models |-> models]

\* listModels() rejected, or answered with a status other than 200
FailedListings == {Listing("throws", <<>>), Listing("non200", <<>>)}

OpenAIListings ==
    FailedListings \cup
    { Listing("ok", <<Str(<<"g", "p", "t", "-", "4", "o">>)>>),
      Listing("ok", <<Str(<<"g", "p", "t", "-", "4", "o">>), Str(<<"g", "p", "t", "-", "4">>)>>),
      Listing("ok", <<Str(<<"g", "p", "t", "-", "4">>), Undefined>>) }

GeminiListings ==
    FailedListings \cup
    { Listing("ok", <<Str(<<"m", "o", "d", "e", "l", "s", "/", "g", "e", "m", "i", "n", "i", "-", "p", "r", "o">>)>>),
      Listing("ok", <<Undefined, Str(<<"m", "o", "d", "e", "l", "s", "/", "g", "e", "m", "i", "n", "i", "-", "p", "r", "o">>)>>) }

OllamaListings ==
    FailedListings \cup
    { Listing("ok", <<Str(<<"l", "l", "a", "m", "a", "2">>)>>),
      Listing("ok", <<Undefined, Str(<<"m", "i", "s", "t", "r", "a", "l">>)>>),
      Listing("ok", <<Str(<<"T", "o", "p">>)>>),
      Listing("bare array", <<Str(<<"l", "l", "a", "m", "a", "2">>)>>) }

\* the body of a model listing: one entry per key of the table
ListOutcome(obj) ==
    [res  |-> [status |-> 200, error |-> "none"],
     body |-> [object |-> "models", model |-> Undefined, content |-> Undefined,
               done |-> FALSE,
               names |-> ObjectKeys(obj),
               family |-> [k \in 1..Len(obj) |-> GetProp(obj, ObjectKeys(obj)[k]).backend],
               usage |-> NoUsage]]

\* the lookup of one model by name: 500 when the name has no toLowerCase,
\* 404 when no key is a prefix of it, else the entry of the key found
ModelInfoOutcome(obj, name) ==
    IF FindThrows(obj, name)
    THEN [res |-> [status |-> 500, error |-> "Internal server error"], body |-> NoBody]
    ELSE LET key == IF Len(obj) = 0 THEN Undefined ELSE FindKey(obj, name)
         IN  IF Falsy(key)
             THEN [res |-> [status |-> 404, error |-> "Model not found"], body |-> NoBody]
             ELSE [res  |-> [status |-> 200, error |-> "none"],
                   body |-> [object |-> "model", model |-> Undefined, content |-> Undefined,
                             done |-> FALSE,
                             names |-> <<key.v>>,
                             family |-> <<GetProp(obj, key.v).backend>>,
                             usage |-> NoUsage]]

ListRequests(route) ==
    [route : {route}, model : {Undefined}, messages : {Undefined},
     prompt : {Undefined}, stream : {FALSE}]

\* req.params.model is always a string; req.body.name may be missing
ParamRequests(route) ==
    [route : {route}, model : ModelNames \ {Undefined}, messages : {Undefined},
     prompt : {Undefined}, stream : {FALSE}]

NameRequests(route) ==
    [route : {route}, model : ModelNames, messages : {Undefined},
     prompt : {Undefined}, stream : {FALSE}]

InitStartup ==
    /\ phase = "list openai"
    /\ modelMap = StaticModelMap
    /\ backends = BackendTags
    /\ req = NoReq
    /\ res = NoRes
    /\ calls = <<>>
    /\ target = NoTarget
    /\ StreamIdle
    /\ StartIdle
    /\ ReplyIdle
    /\ AdapterIdle

\* await backends.openai.listModels() and the loop over its models
ListOpenAIModels ==
    /\ phase = "list openai"
    /\ \E o \in OpenAIListings :
          /\ listings' = [listings EXCEPT !.openai = o]
          /\ dynamicModelMap' = AfterOpenAI(dynamicModelMap, o)
    /\ phase' = "list gemini"
    /\ UNCHANGED <<modelMap, backends, req, res, calls, target>>
    /\ UNCHANGED <<streamVars, replyVars, adapterVars>>

\* await backends.gemini.listModels() and the loop over its models
ListGeminiModels ==
    /\ phase = "list gemini"
    /\ \E o \in GeminiListings :
          /\ listings' = [listings EXCEPT !.gemini = o]
          /\ dynamicModelMap' = AfterGemini(dynamicModelMap, o)
    /\ phase' = "list ollama"
    /\ UNCHANGED <<modelMap, backends, req, res, calls, target>>
    /\ UNCHANGED <<streamVars, replyVars, adapterVars>>

\* await backends.ollama.listModels() and the loop over its models; then
\* buildModelMap returns dynamicModelMap
ListOllamaModels ==
    /\ phase = "list ollama"
    /\ \E o \in OllamaListings :
          /\ listings' = [listings EXCEPT !.ollama = o]
          /\ dynamicModelMap' = AfterOllama(dynamicModelMap, o)
    /\ phase' = "built"
    /\ UNCHANGED <<modelMap, backends, req, res, calls, target>>
    /\ UNCHANGED <<streamVars, replyVars, adapterVars>>

\* Object.keys(modelMap).forEach(key => delete modelMap[key])
ClearModelMap ==
    /\ phase = "built"
    /\ modelMap' = <<>>
    /\ phase' = "cleared"
    /\ UNCHANGED <<backends, req, res, calls, target>>
    /\ UNCHANGED <<streamVars, startVars, replyVars, adapterVars>>

\* Object.assign(modelMap, dynamicModelMap)
InstallModelMap ==
    /\ phase = "cleared"
    /\ modelMap' = ObjectAssign(modelMap, dynamicModelMap)
    /\ phase' = "installed"
    /\ UNCHANGED <<backends, req, res, calls, target>>
    /\ UNCHANGED <<streamVars, startVars, replyVars, adapterVars>>

\* mutant: the server listens as soon as buildModelMap has returned
ListenEarly(ph) == ph \in {"built", "cleared", "installed"}

\* app.listen is reached after the try/catch that rebuilds the table
ReadyToListen(ph) == ph = "installed"

\* app.listen(PORT, ...)
AppListen ==
    /\ ReadyToListen(phase)
    /\ phase' = "serving"
    /\ UNCHANGED <<modelMap, backends, req, res, calls, target>>
    /\ UNCHANGED <<streamVars, startVars, replyVars, adapterVars>>

\* GET /api/models
handleListModels(r) ==
    /\ phase = "serving"
    /\ phase' = "handled"
    /\ req' = r
    /\ res' = ListOutcome(modelMap).res
    /\ body' = ListOutcome(modelMap).body
    /\ UNCHANGED <<modelMap, backends, calls, target, responseData>>
    /\ UNCHANGED <<streamVars, startVars, adapterVars>>

\* GET /api/tags
handleModelTags(r) ==
    /\ phase = "serving"
    /\ phase' = "handled"
    /\ req' = r
    /\ res' = ListOutcome(modelMap).res
    /\ body' = ListOutcome(modelMap).body
    /\ UNCHANGED <<modelMap, backends, calls, target, responseData>>
    /\ UNCHANGED <<streamVars, startVars, adapterVars>>

\* GET /v1/models
handleOpenAIModels(r) ==
    /\ phase = "serving"
    /\ phase' = "handled"
    /\ req' = r
    /\ res' = ListOutcome(modelMap).res
    /\ body' = [ListOutcome(modelMap).body EXCEPT !.object = "list", !.family = <<>>]
    /\ UNCHANGED <<modelMap, backends, calls, target, responseData>>
    /\ UNCHANGED <<streamVars, startVars, adapterVars>>

\* mutant: the lookup of a model removes every alias from the table
handleModelOperationDeleting(r) ==
    /\ phase = "serving"
    /\ phase' = "handled"
    /\ req' = r
    /\ res' = ModelInfoOutcome(modelMap, r.model).res
    /\ body' = ModelInfoOutcome(modelMap, r.model).body
    /\ modelMap' = <<>>
    /\ UNCHANGED <<backends, calls, target, responseData>>
    /\ UNCHANGED <<streamVars, startVars, adapterVars>>

\* POST /api/models/:model
handleModelOperation(r) ==
    /\ phase = "serving"
    /\ phase' = "handled"
    /\ req' = r
    /\ res' = ModelInfoOutcome(modelMap, r.model).res
    /\ body' = ModelInfoOutcome(modelMap, r.model).body
    /\ UNCHANGED <<modelMap, backends, calls, target, responseData>>
    /\ UNCHANGED <<streamVars, startVars, adapterVars>>

\* POST /api/show
handleModelShow(r) ==
    /\ phase = "serving"
    /\ phase' = "handled"
    /\ req' = r
    /\ res' = ModelInfoOutcome(modelMap, r.model).res
    /\ body' = ModelInfoOutcome(modelMap, r.model).body
    /\ UNCHANGED <<modelMap, backends, calls, target, responseData>>
    /\ UNCHANGED <<streamVars, startVars, adapterVars>>

\* the handler has returned: the server waits for the next request
ResponseSent ==
    /\ phase = "handled"
    /\ phase' = "serving"
    /\ req' = NoReq
    /\ res' = NoRes
    /\ calls' = <<>>
    /\ target' = NoTarget
    /\ body' = NoBody
    /\ UNCHANGED <<modelMap, backends, responseData>>
    /\ UNCHANGED <<streamVars, startVars, adapterVars>>

NextStartup ==
    \/ ListOpenAIModels
    \/ ListGeminiModels
    \/ ListOllamaModels
    \/ ClearModelMap
    \/ InstallModelMap
    \/ AppListen
    \/ \E r \in ChatRequests("api_chat") : handleChat(r)
    \/ \E r \in PromptRequests("api_generate") : handleGenerate(r)
    \/ \E r \in ChatRequests("v1_chat") : handleOpenAIChat(r)
    \/ \E r \in PromptRequests("v1_completions") : handleOpenAICompletions(r)
    \/ \E r \in ListRequests("api_models") : handleListModels(r)
    \/ \E r \in ListRequests("api_tags") : handleModelTags(r)
    \/ \E r \in ListRequests("v1_models") : handleOpenAIModels(r)
    \/ \E r \in ParamRequests("api_model") : handleModelOperation(r)
    \/ \E r \in NameRequests("api_show") : handleModelShow(r)
    \/ ResponseSent

SpecStartup == InitStartup /\ [][NextStartup]_vars

---------------------------------------------------------------------------
(* Claims about startup and the registry, checked under SpecStartup *)

Adapters == {"openai", "gemini", "ollama"}

Serving == phase \in {"serving", "handled"}

ListingFailed(a) == listings[a].result \in {"throws", "non200"}

KeysOf(obj) == {obj[i].k : i \in 1..Len(obj)}

\* the aliases one adapter's listing gives on its own
AliasesOf(a) ==
    IF a = "openai" THEN KeysOf(AfterOpenAI(<<>>, listings[a]))
    ELSE IF a = "gemini" THEN KeysOf(AfterGemini(<<>>, listings[a]))
    ELSE KeysOf(AfterOllama(<<>>, listings[a]))

\* C15: when the listModels call of some adapter throws or answers with a
\* status other than 200 during buildModelMap, every alias derived from the
\* successful listing of each other adapter is in the registry that is
\* installed, whichever adapter failed.
C15_OtherAdaptersStillRegistered ==
    (/\ phase \in {"installed", "serving", "handled"}
     /\ \E a \in Adapters : ListingFailed(a))
        => \A g \in Adapters :
              (listings[g].result = "ok") => (AliasesOf(g) \subseteq KeysOf(modelMap))

C15_Witness ==
    /\ phase = "serving"
    /\ listings.gemini.result = "throws"
    /\ listings.openai.result = "ok"
    /\ listings.ollama.result = "ok"
    /\ AliasesOf("openai") # {}
    /\ AliasesOf("ollama") # {}
    /\ (AliasesOf("openai") \cup AliasesOf("ollama")) = KeysOf(modelMap)

\* C16: when startup discovery fails, every adapter's listModels failing
\* included, the registry in force while the server serves is the static
\* default table and is not empty.
C16_FailedDiscoveryKeepsDefaults ==
    (/\ Serving
     /\ \A a \in Adapters : ListingFailed(a))
        => (modelMap = StaticModelMap /\ modelMap # <<>>)

\* C17: no request sees a partly rebuilt registry: no handler has run before
\* the server listens, and whenever the server is serving, every adapter has
\* been asked and the table is the complete discovered table (or the default
\* table).
C17_NoPartialRebuildObserved ==
    /\ Serving
          => /\ \A a \in Adapters : listings[a] # NotAsked
             /\ \/ modelMap = ObjectAssign(<<>>, dynamicModelMap)
                \/ modelMap = StaticModelMap
    /\ ~Serving
          => (req = NoReq /\ res = NoRes /\ calls = <<>> /\ body = NoBody)

C17_Witness ==
    /\ phase = "handled"
    /\ req.route = "api_chat"
    /\ Len(calls) = 1
    /\ Len(modelMap) >= 4
    /\ modelMap = ObjectAssign(<<>>, dynamicModelMap)

\* C18: the registry changes only in the startup rebuild (clearing the
\* static table, installing the discovered one) and the adapter table never
\* changes: no request on any route, in any order, changes either table.
C18_ServingLeavesRegistryUnchanged ==
    [][/\ (modelMap' # modelMap) => (phase \in {"built", "cleared"} /\ ~Serving')
       /\ backends' = backends]_vars

C18_Witness ==
    /\ phase = "handled"
    /\ req.route = "api_model"
    /\ res.status = 200
    /\ Len(modelMap) >= 4
    /\ modelMap = ObjectAssign(<<>>, dynamicModelMap)

---------------------------------------------------------------------------
(* Non-streamed responses: the handler turns the body of the upstream      *)
(* response into the client's JSON body                                    *)

\* the text of n characters c
Text(c, n) == [k \in 1..n |-> c]

ChoicesText == Str(Text("c", 20))
CandidatesText == Str(Text("g", 3))
ResponseText == Str(Text("r", 5))

\* response.data: choices[0].message.content, candidates[0].content and
\* response, each present or not
ResponseBodies ==
    [present : {TRUE},
     choices : {Undefined, Str(<<>>), ChoicesText},
     candidates : {Undefined, CandidatesText},
     response : {Undefined, ResponseText}]
    \cup {NoResponseData}

\* choices?.[0]?.message?.content || candidates?.[0]?.content || ''
ExtractText(d) ==
    IF ~Falsy(d.choices) THEN d.choices
    ELSE IF ~Falsy(d.candidates) THEN d.candidates
    ELSE Str(<<>>)

\* choices?.[0]?.message?.content || candidates?.[0]?.content || response || ''
ExtractTextOrResponse(d) ==
    IF ~Falsy(d.choices) THEN d.choices
    ELSE IF ~Falsy(d.candidates) THEN d.candidates
    ELSE IF ~Falsy(d.response) THEN d.response
    ELSE Str(<<>>)

RECURSIVE ContentChars(_, _)

\* messages.reduce((acc, msg) => acc + msg.content.length, 0), from message i
ContentChars(messages, i) ==
    IF i > Len(messages) THEN 0
    ELSE Len(messages[i].content.v) + ContentChars(messages, i + 1)

\* the Ollama body of /api/chat and /api/generate
OllamaBody(object, model, content) ==
    [object |-> object, model |-> model, content |-> content, done |-> TRUE,
     names |-> <<>>, family |-> <<>>, usage |-> NoUsage]

\* the OpenAI body of /v1/chat/completions and /v1/completions
OpenAIBody(object, model, content, promptChars) ==
    [object |-> object, model |-> model, content |-> content, done |-> FALSE,
     names |-> <<>>, family |-> <<>>,
     usage |-> Usage(promptChars, Len(content.v))]

UserMsg(n) == Msg(Str(<<"u">>), Str(Text("m", n)))

ReplyModels == {Str(<<"Z", "z">>), Str(<<"g", "e", "m", "i", "n", "i", "-", "x">>)}

ReplyChatRequests(route) ==
    [route : {route}, model : ReplyModels,
     messages : {Arr(<<UserMsg(40)>>), Arr(<<UserMsg(3)>>),
                 Arr(<<UserMsg(3), UserMsg(1)>>), Arr(<<UserMsg(37), UserMsg(3)>>)},
     prompt : {Undefined}, stream : {FALSE}]

ReplyPromptRequests(route) ==
    [route : {route}, model : ReplyModels, messages : {Undefined},
     prompt : {Str(Text("p", 40)), Str(Text("p", 3)), Str(Text("p", 1))},
     stream : {FALSE}]

ReplyRequests ==
    ReplyChatRequests("api_chat") \cup ReplyPromptRequests("api_generate")
    \cup ReplyChatRequests("v1_chat") \cup ReplyPromptRequests("v1_completions")

\* what the handler of the request's route did before awaiting the adapter
OutcomeOf(r) ==
    IF r.route = "api_chat" THEN ChatOutcome(r)
    ELSE IF r.route = "api_generate" THEN GenerateOutcome(r)
    ELSE IF r.route = "v1_chat" THEN OpenAIChatOutcome(r)
    ELSE OpenAICompletionsOutcome(r)

\* the handler has called the adapter for a request with stream = false and
\* the upstream response has arrived
InitReply ==
    /\ phase = "awaiting"
    /\ modelMap = StaticModelMap
    /\ backends = BackendTags
    /\ req \in ReplyRequests
    /\ res = NoRes
    /\ calls = OutcomeOf(req).calls
    /\ target = OutcomeOf(req).target
    /\ StreamIdle
    /\ StartIdle
    /\ responseData \in ResponseBodies
    /\ body = NoBody
    /\ AdapterIdle

\* handleChat, the branch for stream = false
RespondChat ==
    /\ phase = "awaiting"
    /\ req.route = "api_chat"
    /\ phase' = "replied"
    /\ res' = [status |-> 200, error |-> "none"]
    /\ body' = OllamaBody("ollama chat", target.model, ExtractText(responseData))
    /\ UNCHANGED <<modelMap, backends, req, calls, target, responseData>>
    /\ UNCHANGED <<streamVars, startVars, adapterVars>>

\* handleGenerate, the branch for stream = false
RespondGenerate ==
    /\ phase = "awaiting"
    /\ req.route = "api_generate"
    /\ phase' = "replied"
    /\ res' = [status |-> 200, error |-> "none"]
    /\ body' = OllamaBody("ollama generate", target.model, ExtractText(responseData))
    /\ UNCHANGED <<modelMap, backends, req, calls, target, responseData>>
    /\ UNCHANGED <<streamVars, startVars, adapterVars>>

\* handleOpenAIChat, the branch for stream = false
RespondOpenAIChat ==
    /\ phase = "awaiting"
    /\ req.route = "v1_chat"
    /\ phase' = "replied"
    /\ res' = [status |-> 200, error |-> "none"]
    /\ body' = OpenAIBody("chat.completion", req.model, ExtractText(responseData),
                          ContentChars(req.messages.a, 1))
    /\ UNCHANGED <<modelMap, backends, req, calls, target, responseData>>
    /\ UNCHANGED <<streamVars, startVars, adapterVars>>

\* handleOpenAICompletions, the branch for stream = false
RespondOpenAICompletions ==
    /\ phase = "awaiting"
    /\ req.route = "v1_completions"
    /\ phase' = "replied"
    /\ res' = [status |-> 200, error |-> "none"]
    /\ body' = OpenAIBody("text_completion", req.model,
                          ExtractTextOrResponse(responseData), Len(req.prompt.v))
    /\ UNCHANGED <<modelMap, backends, req, calls, target, responseData>>
    /\ UNCHANGED <<streamVars, startVars, adapterVars>>

NextReply ==
    \/ RespondChat
    \/ RespondGenerate
    \/ RespondOpenAIChat
    \/ RespondOpenAICompletions

SpecReply == InitReply /\ [][NextReply]_vars

---------------------------------------------------------------------------
(* Claims about non-streamed responses, checked under SpecReply *)

\* the text the priority order gives: choices, candidates, response, ''
PriorityText(d) ==
    IF d.choices.t = "string" /\ d.choices.v # <<>> THEN d.choices
    ELSE IF d.candidates.t = "string" /\ d.candidates.v # <<>> THEN d.candidates
    ELSE IF d.response.t = "string" /\ d.response.v # <<>> THEN d.response
    ELSE Str(<<>>)

\* C19: on each of the four routes the text of a non-streamed response is
\* the first present of choices[0].message.content, candidates[0].content,
\* the top-level response field, and the empty string; an upstream body
\* {response: t} without choices and candidates gives a response carrying t.
C19_TextByPriorityWithResponse ==
    (phase = "replied") => body.content = PriorityText(responseData)

\* fourths of a token in a usage figure
Fourths(tokens) == 4 * tokens.whole + tokens.quarters

PromptChars ==
    IF req.route = "v1_chat" THEN ContentChars(req.messages.a, 1)
    ELSE Len(req.prompt.v)

\* C20: in a non-streamed OpenAI-shape response prompt_tokens is the number
\* of prompt characters (for chat, the sum of the message content lengths)
\* divided by 4, completion_tokens is the number of completion characters
\* divided by 4, and total_tokens is their sum; 40 prompt characters and 20
\* completion characters give 10, 5 and 15.
C20_UsageIsCharsOverFour ==
    (phase = "replied" /\ req.route \in {"v1_chat", "v1_completions"})
        => LET u == body.usage
           IN  /\ u.given
               /\ \A t \in {u.prompt_tokens, u.completion_tokens, u.total_tokens} :
                     t.quarters \in 0..3
               /\ Fourths(u.prompt_tokens) = PromptChars
               /\ Fourths(u.completion_tokens) = Len(body.content.v)
               /\ Fourths(u.total_tokens)
                     = Fourths(u.prompt_tokens) + Fourths(u.completion_tokens)
               /\ (PromptChars = 40 /\ Len(body.content.v) = 20)
                     => /\ u.prompt_tokens = [whole |-> 10, quarters |-> 0]
                        /\ u.completion_tokens = [whole |-> 5, quarters |-> 0]
                        /\ u.total_tokens = [whole |-> 15, quarters |-> 0]

C20_Witness ==
    /\ phase = "replied"
    /\ req.route = "v1_chat"
    /\ Len(req.messages.a) = 2
    /\ PromptChars = 40
    /\ Len(body.content.v) = 20
    /\ body.usage.total_tokens.whole = 15

---------------------------------------------------------------------------
(* Errors thrown by an adapter: the handler's catch hands them to next(),  *)
(* and the server's error handling answers                                 *)

\* the server without discovery (error middleware registered) and the
\* server with discovery (error middleware commented out)
ServerConfigs == {"static", "discovery"}

\* const backends = { openai, gemini }  /  { openai, gemini, ollama }
TableOf(srv) == IF srv = "static" THEN {"openai", "gemini"} ELSE BackendTags

\* app.use((err, req, res, next) => ...) is registered
HasErrorMiddleware(srv) == srv = "static"

\* what axios rejects with: no response (network failure), or the response
\* of a non-2xx upstream answer
AdapterErrors ==
    { [kind |-> "network", status |-> 0],
      [kind |-> "upstream", status |-> 401],
      [kind |-> "upstream", status |-> 429],
      [kind |-> "upstream", status |-> 503] }

\* error.response?.status || 500
MiddlewareStatus(err) == IF err.status # 0 THEN err.status ELSE 500

\* res.status(status).json({ error: data })
ErrorMiddleware(err) ==
    [res  |-> [status |-> MiddlewareStatus(err),
               error |-> IF err.kind = "upstream" THEN "upstream response data"
                         ELSE "error message"],
     body |-> [NoBody EXCEPT !.object = "error"]]

\* Express's built-in handler: err.status when the error object carries one
\* (an AxiosError does in some axios releases), else 500
DefaultStatuses(err) == {500} \cup (IF err.status # 0 THEN {err.status} ELSE {})

\* Express's built-in handler answers with an HTML page, not with JSON
DefaultErrorHandler(err, status) ==
    [res  |-> [status |-> status, error |-> "none"],
     body |-> [NoBody EXCEPT !.object = "html"]]

InitError ==
    /\ phase = "awaiting"
    /\ server \in ServerConfigs
    /\ backends = TableOf(server)
    /\ modelMap = StaticModelMap
    /\ req \in ReplyRequests
    /\ res = NoRes
    /\ calls = OutcomeOf(req).calls
    /\ target = OutcomeOf(req).target
    /\ StreamIdle
    /\ StartIdle
    /\ ReplyIdle
    /\ thrown = NoError
    /\ options = NoOptions
    /\ unified = NoOptions
    /\ netCalls = 0
    /\ apiKey = ""

\* await backend.chat / generate rejects: catch (error) { next(error) }
AdapterThrows ==
    /\ phase = "awaiting"
    /\ phase' = "failed"
    /\ \E err \in AdapterErrors :
          /\ thrown' = err
          /\ IF HasErrorMiddleware(server)
             THEN /\ res' = ErrorMiddleware(err).res
                  /\ body' = ErrorMiddleware(err).body
             ELSE \E status \in DefaultStatuses(err) :
                     /\ res' = DefaultErrorHandler(err, status).res
                     /\ body' = DefaultErrorHandler(err, status).body
    /\ UNCHANGED <<modelMap, backends, req, calls, target, responseData>>
    /\ UNCHANGED <<streamVars, startVars, server, options, unified, netCalls, apiKey>>

SpecError == InitError /\ [][AdapterThrows]_vars

\* C21: every error path ends in a JSON body with an 'error' field: an
\* error thrown by an adapter is answered with the upstream status when
\* there is one, else 500, and a JSON error body, in the server with model
\* discovery as in the earlier one.
C21_AdapterErrorsAnswerJson ==
    (phase = "failed")
        => /\ body.object = "error"
           /\ res.error # "none"
           /\ res.status = (IF thrown.status # 0 THEN thrown.status ELSE 500)

\* C22: a generate / completion request without prompt, or without model,
\* gets status 400 with a JSON error body and no adapter is called, on
\* /api/generate as on /v1/completions.
C22_MissingFieldIs400 ==
    (/\ phase = "handled"
     /\ req.route \in {"api_generate", "v1_completions"}
     /\ (req.prompt.t = "undefined" \/ req.model.t = "undefined"))
        => /\ res.status = 400
           /\ res.error # "none"
           /\ calls = <<>>

\* requested names, some of them equal after lowercasing
CaseVariants ==
    { Str(<<"G", "P", "T", "4">>), Str(<<"g", "p", "t", "4">>), Str(<<"G", "p", "t", "4">>),
      Str(<<"4", "O">>), Str(<<"4", "o">>),
      Str(<<"Z", "Z">>), Str(<<"z", "z">>),
      Str(<<"g", "p", "t", "4", "-", "t">>) }

ParsesAsJson(p) ==
    /\ p.part = "whole"
    /\ p.line.marker
    /\ p.line.payload.kind = "json"

\* the text the priority order gives for a parsed payload
PriorityContent(payload) ==
    IF payload.choices # Absent THEN payload.choices
    ELSE IF payload.candidates # Absent THEN payload.candidates
    ELSE ""

\* C24: for every 'data: ' line whose payload parses as JSON exactly one
\* client frame is written; it carries choices[0].delta.content when
\* present, else candidates[0].content when present, else the empty string,
\* and it is not terminal (done=false, finish_reason=null).
C24_OneFramePerParsedLine ==
    (sroute \in TranslatingRoutes)
        => LET parsed  == SelectSeq(fed, ParsesAsJson)
               written == SelectSeq(out, IsContentFrame)
           IN  /\ Len(written) = Len(parsed)
               /\ \A k \in 1..Len(written) :
                     /\ k <= Len(parsed)
                           => written[k].content = PriorityContent(parsed[k].line.payload)
                     /\ ~written[k].done
                     /\ written[k].finish \in {"none", "null"}

---------------------------------------------------------------------------
(* A slow client: the frames written wait in the response's buffer until   *)
(* the client reads them                                                   *)

\* frames written with res.write and not yet read by the client
Buffered == Len(out) - taken

\* res.write() returns false: the buffer has reached its high-water mark
SinkFull == Buffered >= HighWaterMark

\* the client reads one frame from the connection
ClientRead ==
    /\ sroute \in TranslatingRoutes
    /\ client = "open"
    /\ taken < Len(out)
    /\ taken' = taken + 1
    /\ UNCHANGED <<sroute, upstream, client, out, resEnded, fed, pendingTail, endCalls>>
    /\ UNCHANGED <<routeVars, startVars, replyVars, adapterVars>>

NextSlowClient ==
    \/ \E route \in TranslatingRoutes : BeginStream(route)
    \/ OnData
    \/ OnEnd
    \/ ClientRead

SpecSlowClient == InitStream /\ [][NextSlowClient]_vars

\* C25: when the response's buffer is full (a write has reported it), the
\* translator takes nothing more from the upstream stream until the client
\* has drained it, so the frames accepted from upstream and not yet read by
\* the client stay bounded.
C25_FullSinkPausesUpstream ==
    [][(sroute \in TranslatingRoutes /\ SinkFull) => fed' = fed]_vars

---------------------------------------------------------------------------
(* The adapter call: the handler builds the request it hands to the        *)
(* adapter, and the adapter issues the upstream HTTP call                  *)

\* the options of the client's request body
ClientOptions ==
    [temperature : {Absent, "0", "0.2"}, top_p : {Absent, "0.9"},
     top_k : {Absent, "5"}]

\* x ?? d
OrDefault(x, d) == IF x = Absent THEN d ELSE x

\* { ...options, temperature: options.temperature ?? 0.7,
\*   top_p: options.top_p ?? 1, top_k: options.top_k ?? 40 }
GenerateOptions(opts) ==
    [temperature |-> OrDefault(opts.temperature, "0.7"),
     top_p |-> OrDefault(opts.top_p, "1"),
     top_k |-> OrDefault(opts.top_k, "40")]

\* { ...options, model: target.model, stream, format }
ChatOptions(opts) == opts

\* throw new Error('OpenAI API key is not set. ...')
KeyNotSet == [kind |-> "config", status |-> 0]

ApiKeys == {"", "sk-key"}

AdapterRequests ==
    ReplyPromptRequests("api_generate") \cup ReplyChatRequests("api_chat")

InitAdapter ==
    /\ phase = "request"
    /\ modelMap = StaticModelMap
    /\ backends = BackendTags
    /\ req \in AdapterRequests
    /\ res = NoRes
    /\ calls = <<>>
    /\ target = OutcomeOf(req).target
    /\ StreamIdle
    /\ StartIdle
    /\ ReplyIdle
    /\ server = "none"
    /\ thrown = NoError
    /\ options \in ClientOptions
    /\ unified = NoOptions
    /\ netCalls = 0
    /\ apiKey \in ApiKeys

\* handleGenerate: await backend.generate({ ..., options: { ... } })
CallGenerate ==
    /\ phase = "request"
    /\ req.route = "api_generate"
    /\ phase' = "called"
    /\ calls' = OutcomeOf(req).calls
    /\ unified' = GenerateOptions(options)
    /\ UNCHANGED <<modelMap, backends, req, res, target>>
    /\ UNCHANGED <<streamVars, startVars, replyVars>>
    /\ UNCHANGED <<server, thrown, options, netCalls, apiKey>>

\* handleChat: await backend.chat(messages, { ...options, model, stream, format })
CallChat ==
    /\ phase = "request"
    /\ req.route = "api_chat"
    /\ phase' = "called"
    /\ calls' = OutcomeOf(req).calls
    /\ unified' = ChatOptions(options)
    /\ UNCHANGED <<modelMap, backends, req, res, target>>
    /\ UNCHANGED <<streamVars, startVars, replyVars>>
    /\ UNCHANGED <<server, thrown, options, netCalls, apiKey>>

\* OpenAIBackend.generate: the key is checked before the axios call
OpenAIGenerate ==
    /\ phase = "called"
    /\ calls[1].backend = "openai"
    /\ calls[1].method = "generate"
    /\ phase' = "done"
    /\ IF apiKey = ""
       THEN thrown' = KeyNotSet /\ netCalls' = netCalls
       ELSE thrown' = thrown /\ netCalls' = netCalls + 1
    /\ UNCHANGED <<modelMap, backends, req, res, calls, target>>
    /\ UNCHANGED <<streamVars, startVars, replyVars>>
    /\ UNCHANGED <<server, options, unified, apiKey>>

\* OpenAIBackend.chat: the axios call is issued whatever the key is
OpenAIChat ==
    /\ phase = "called"
    /\ calls[1].backend = "openai"
    /\ calls[1].method = "chat"
    /\ phase' = "done"
    /\ netCalls' = netCalls + 1
    /\ UNCHANGED <<modelMap, backends, req, res, calls, target>>
    /\ UNCHANGED <<streamVars, startVars, replyVars>>
    /\ UNCHANGED <<server, thrown, options, unified, apiKey>>

\* GeminiBackend.generate: the axios call carries ?key=${this.apiKey}
GeminiGenerate ==
    /\ phase = "called"
    /\ calls[1].backend = "gemini"
    /\ calls[1].method = "generate"
    /\ phase' = "done"
    /\ netCalls' = netCalls + 1
    /\ UNCHANGED <<modelMap, backends, req, res, calls, target>>
    /\ UNCHANGED <<streamVars, startVars, replyVars>>
    /\ UNCHANGED <<server, thrown, options, unified, apiKey>>

\* GeminiBackend.chat: the messages hold a user message, so the axios call
\* is issued, whatever the key is
GeminiChat ==
    /\ phase = "called"
    /\ calls[1].backend = "gemini"
    /\ calls[1].method = "chat"
    /\ phase' = "done"
    /\ netCalls' = netCalls + 1
    /\ UNCHANGED <<modelMap, backends, req, res, calls, target>>
    /\ UNCHANGED <<streamVars, startVars, replyVars>>
    /\ UNCHANGED <<server, thrown, options, unified, apiKey>>

NextAdapter ==
    \/ CallGenerate
    \/ CallChat
    \/ OpenAIGenerate
    \/ OpenAIChat
    \/ GeminiGenerate
    \/ GeminiChat

SpecAdapter == InitAdapter /\ [][NextAdapter]_vars

\* C26: the request handleGenerate hands to backend.generate carries only
\* the options the client supplied: temperature, top_p and top_k are absent
\* from it whenever the client omitted them.
C26_OmittedOptionsStayAbsent ==
    (phase \in {"called", "done"} /\ req.route = "api_generate")
        => /\ (options.temperature = Absent) => (unified.temperature = Absent)
           /\ (options.top_p = Absent) => (unified.top_p = Absent)
           /\ (options.top_k = Absent) => (unified.top_k = Absent)

\* C27: an adapter constructed with an empty API key fails generate and
\* chat with a descriptive error that is not a network error, and issues no
\* upstream HTTP call, for the OpenAI and the Gemini adapter alike.
C27_EmptyKeyFailsBeforeNetwork ==
    (phase = "done" /\ apiKey = "")
        => /\ netCalls = 0
           /\ thrown.kind = "config"

\* the positions of the literal 'data: [DONE]' frame in the response
LiteralDonePositions == {i \in 1..Len(out) : out[i] = LiteralDone}

\* C28: on the OpenAI-shape streaming routes, once the upstream stream has
\* ended, the literal 'data: [DONE]' frame has been written at most once and
\* it is the last frame of the response: no content chunk and no chunk with
\* finish_reason='stop' follows it.
C28_LiteralDoneOnceAndLast ==
    (sroute \in {"v1_chat", "v1_completions"} /\ upstream = "ended")
        => /\ Cardinality(LiteralDonePositions) <= 1
           /\ \A i \in LiteralDonePositions : i = Len(out)

---------------------------------------------------------------------------
(* Termination of a streamed response: the upstream stream may also fail   *)
(* in mid-stream                                                           *)

\* what an 'error' on response.data does to the client connection: no
\* handler listens for it, so either the stream is destroyed silently and
\* the response stays as it is, or the unhandled event terminates the
\* process and the socket with it
ErrorOutcomes == {"open", "closed"}

\* the upstream stream fails in mid-stream; no 'end' follows
UpstreamError ==
    /\ sroute \in StreamRoutes
    /\ upstream = "open"
    /\ upstream' = "errored"
    /\ \E c \in ErrorOutcomes : client' = IF client = "closed" THEN client ELSE c
    /\ UNCHANGED <<sroute, out, resEnded, fed, pendingTail, endCalls, taken>>
    /\ UNCHANGED <<routeVars, startVars, replyVars, adapterVars>>

NextStreamLive ==
    \/ \E route \in StreamRoutes : BeginStream(route)
    \/ OnData
    \/ OnPipeData
    \/ OnEnd
    \/ ClientClose
    \/ UpstreamError

\* the upstream stream finishes, one way or the other, while it is open
SpecStreamLive ==
    InitStream /\ [][NextStreamLive]_vars /\ WF_vars(OnEnd \/ UpstreamError)

\* C29: once a streamed response has started, the client sink is eventually
\* closed, whether the upstream stream ends normally, fails in mid-stream or
\* the client disconnects.
C29_StreamEventuallyClosed ==
    (sroute \in StreamRoutes) ~> (resEnded \/ client = "closed")

\* C30: while the server is serving, every alias of the registry, requested
\* by exactly its own name, is the key the lookup finds: no alias is shadowed
\* by an alias that is a prefix of it and comes earlier in Object.keys, and
\* no alias is out of reach because of upper-case characters.
C30_EveryAliasResolvesToItself ==
    Serving => \A k \in KeysOf(modelMap) : FindKey(modelMap, Str(k)) = Str(k)

=============================================================================
